---- MODULE Spec2Model ----
(***************************************************************************)
(* A model of boost::process::child (include/boost/process/child.hpp):     *)
(* the move-only owner of a native process handle, its type-erased         *)
(* resource bundle and its atomic exit state, together with the operating  *)
(* system's view of the processes the owners refer to.                     *)
(*                                                                         *)
(* Every member function is performed by a thread.  wait(), wait_for() and *)
(* wait_until() are split at their atomic loads and stores and at the call *)
(* of the platform primitive; the other members are one step each.         *)
(***************************************************************************)
EXTENDS Integers, Sequences, FiniteSets, TLC

\* ------------------------------------------------------------------ bounds
NOwners == 2
NProcs == 1
NThreads == 2
MaxExitCode == 1
MaxDescs == 3
NKinds == 2

\* --------------------------------------------------------------- constants
\* std::atomic<int> _exit_code{ -1 }
Sentinel == -1
\* int exit_code = 0;  the local of wait(), wait_for() and wait_until()
LocalInit == 0
\* a default-constructed or moved-from child_handle
NoHandle == 0
\* resource_t && resource = nullptr, and a moved-from unique_ptr
NoResource == 0
\* boost::none, what a descriptor without a resource yields
None == 0

Owners == 1..NOwners
Procs == 1..NProcs
Threads == 1..NThreads
ExitCodes == 0..MaxExitCode
\* The one thread of single-threaded use.
MainThread == {1}

VARIABLES
    \* the child objects
    life,        \* "unborn" | "live" | "dead": the lifetime of the object
    handle,      \* _child_handle: NoHandle or the process it names
    resource,    \* _resource: NoResource or the bundle it owns
    exited,      \* _exited
    exit_code,   \* _exit_code
    attached,    \* _attached
    \* the operating system
    pstate,      \* "none" | "running" | "terminating" | "exited"
    pcode,       \* the exit code the OS reports for an exited process
    \* the resource bundles
    built,       \* make_resource_pointer has allocated the bundle
    released,    \* how often the bundle's deleter has run
    \* the threads
    op,          \* the blocking member a thread is inside of, or "none"
    pc,          \* where in it: "idle" | "api" | "store_exited" | "store_code"
    cur,         \* the child it was called on
    ec,          \* the local int exit_code
    lb,          \* the local b of the bounded waits
    \* history
    waited,      \* a wait() has returned on this child value
    timedout,    \* the last wait-family call on this child value timed out
    gone,        \* the process had ended when the thread's primitive looked
    pre,         \* the child's state when the thread's last call began
    ret,         \* what the thread's last call did and returned
    \* detail::make_resource
    mk           \* its argument and the values it computes, stage by stage

ownerVars == <<life, handle, resource, exited, exit_code, attached>>
osVars == <<pstate, pcode>>
bundleVars == <<built, released>>
threadVars == <<op, pc, cur, ec, lb>>
histVars == <<waited, timedout, gone, pre, ret>>
vars == <<ownerVars, osVars, bundleVars, threadVars, histVars, mk>>

\* ----------------------------------------------------------------- history
NoRet ==
    [op |-> "none", o |-> 0, src |-> 0, b |-> FALSE, n |-> 0,
     os |-> FALSE, h |-> NoHandle, rel |-> NoResource, thrown |-> FALSE,
     first |-> "none"]

Snap(o) ==
    [handle |-> handle[o], resource |-> resource[o], exited |-> exited[o],
     exit_code |-> exit_code[o], attached |-> attached[o],
     waited |-> waited[o], timedout |-> timedout[o],
     after |-> "none"]

NoSnap ==
    [handle |-> NoHandle, resource |-> NoResource, exited |-> FALSE,
     exit_code |-> Sentinel, attached |-> FALSE,
     waited |-> FALSE, timedout |-> FALSE,
     after |-> "none"]

Returns(t, r) == ret' = [ret EXCEPT ![t] = r]
Entered(t, o) == pre' = [pre EXCEPT ![t] = Snap(o)]

\* The same, remembering that the thread's previous call was terminate() on
\* this child.
EnteredAfter(t, o) ==
    pre' = [pre EXCEPT ![t] = [Snap(o) EXCEPT !.after =
                IF ret[t].op = "terminate" /\ ret[t].o = o
                THEN "terminate" ELSE "none"]]

\* No thread is inside a blocking member of child o.
Quiescent(o) == \A t \in Threads : cur[t] # o

Idle(t) == pc[t] = "idle"

\* child_handle::valid()
valid_handle(h) == h # NoHandle

\* ------------------------------------------------------------------- Init
\* Children start attached.
attached_init_true == TRUE
\* bool _attached = false;
attached_init == FALSE

\* No call of make_resource.
NoMake ==
    [stage |-> "none", tup |-> <<>>, res |-> <<>>, filtered |-> <<>>,
     made |-> <<>>]

\* The state after construction of nothing yet: no child, no process.
InitChild ==
    /\ life = [o \in Owners |-> "unborn"]
    /\ handle = [o \in Owners |-> NoHandle]
    /\ resource = [o \in Owners |-> NoResource]
    /\ exited = [o \in Owners |-> FALSE]
    /\ exit_code = [o \in Owners |-> Sentinel]
    /\ attached = [o \in Owners |-> FALSE]
    /\ pstate = [p \in Procs |-> "none"]
    /\ pcode = [p \in Procs |-> 0]
    /\ built = [r \in Procs |-> FALSE]
    /\ released = [r \in Procs |-> 0]
    /\ op = [t \in Threads |-> "none"]
    /\ pc = [t \in Threads |-> "idle"]
    /\ cur = [t \in Threads |-> 0]
    /\ ec = [t \in Threads |-> LocalInit]
    /\ lb = [t \in Threads |-> FALSE]
    /\ waited = [o \in Owners |-> FALSE]
    /\ timedout = [o \in Owners |-> FALSE]
    /\ gone = [t \in Threads |-> FALSE]
    /\ pre = [t \in Threads |-> NoSnap]
    /\ ret = [t \in Threads |-> NoRet]

Init ==
    /\ InitChild
    /\ mk = NoMake

\* ------------------------------------------------------- the launcher side
\* The launcher hands out each native handle once: the lowest unused one.
FreshProc(p) ==
    /\ pstate[p] = "none"
    /\ \A q \in Procs : q < p => pstate[q] # "none"

\* Objects come into being in the order of their names.
FreshOwner(o) ==
    /\ life[o] = "unborn"
    /\ \A q \in Owners : q < o => life[q] # "unborn"

\* std::unique_ptr<void, void(*)(void*)>: giving up a non-null pointer runs
\* the deleter make_resource_pointer stored with it.
Release(r) ==
    IF r # NoResource THEN [released EXCEPT ![r] = @ + 1] ELSE released

\* explicit child(child_handle &&ch, resource_t && resource = nullptr):
\* the launcher has started process p; r is the bundle
\* make_resource_pointer built for it, or nullptr.
child_launch(t, o, p, r) ==
    /\ Idle(t)
    /\ FreshOwner(o)
    /\ FreshProc(p)
    /\ r \in {NoResource, p}
    /\ life' = [life EXCEPT ![o] = "live"]
    /\ handle' = [handle EXCEPT ![o] = p]
    /\ resource' = [resource EXCEPT ![o] = r]
    /\ exited' = [exited EXCEPT ![o] = FALSE]
    /\ exit_code' = [exit_code EXCEPT ![o] = Sentinel]
    /\ attached' = [attached EXCEPT ![o] = attached_init]
    /\ pstate' = [pstate EXCEPT ![p] = "running"]
    /\ built' = [built EXCEPT ![p] = (r # NoResource)]
    /\ waited' = [waited EXCEPT ![o] = FALSE]
    /\ timedout' = [timedout EXCEPT ![o] = FALSE]
    /\ pre' = [pre EXCEPT ![t] = NoSnap]
    /\ Returns(t, [NoRet EXCEPT !.op = "child_launch", !.o = o, !.h = p])
    /\ UNCHANGED <<pcode, released, threadVars, gone>>
    /\ UNCHANGED mk

\* child() = default;
child_default(t, o) ==
    /\ Idle(t)
    /\ FreshOwner(o)
    /\ life' = [life EXCEPT ![o] = "live"]
    /\ handle' = [handle EXCEPT ![o] = NoHandle]
    /\ resource' = [resource EXCEPT ![o] = NoResource]
    /\ exited' = [exited EXCEPT ![o] = FALSE]
    /\ exit_code' = [exit_code EXCEPT ![o] = Sentinel]
    /\ attached' = [attached EXCEPT ![o] = attached_init]
    /\ waited' = [waited EXCEPT ![o] = FALSE]
    /\ timedout' = [timedout EXCEPT ![o] = FALSE]
    /\ pre' = [pre EXCEPT ![t] = NoSnap]
    /\ Returns(t, [NoRet EXCEPT !.op = "child_default", !.o = o])
    /\ UNCHANGED <<osVars, bundleVars, threadVars, gone>>
    /\ UNCHANGED mk

\* ------------------------------------------------------------------ moves
\* A moved-from child_handle is empty.
moved_from_handle(h) == NoHandle

\* std::move(lhs._resource) copies the pointer instead of taking it.
moved_from_resource_copy(r) == r
\* std::move(lhs._resource): the source unique_ptr is left null.
moved_from_resource(r) == NoResource

\* _exit_code is left as it was: the store of line 136 is missing.
move_assign_exit_code_kept(own, lhs) == own
\* _exit_code.store(lhs._exit_code.load());
move_assign_exit_code(own, lhs) == lhs

\* child(child && lhs)
move_ctor(t, dst, src) ==
    /\ Idle(t)
    /\ FreshOwner(dst)
    /\ life[src] = "live"
    /\ Quiescent(src)
    /\ life' = [life EXCEPT ![dst] = "live"]
    /\ handle' = [handle EXCEPT ![dst] = handle[src],
                                ![src] = moved_from_handle(handle[src])]
    /\ resource' = [resource EXCEPT ![dst] = resource[src],
                                    ![src] = moved_from_resource(resource[src])]
    /\ exited' = [exited EXCEPT ![dst] = exited[src]]
    /\ exit_code' = [exit_code EXCEPT ![dst] = exit_code[src]]
    /\ attached' = [attached EXCEPT ![dst] = attached[src]]
    /\ waited' = [waited EXCEPT ![dst] = waited[src], ![src] = FALSE]
    /\ timedout' = [timedout EXCEPT ![dst] = timedout[src], ![src] = FALSE]
    /\ Entered(t, src)
    /\ Returns(t, [NoRet EXCEPT !.op = "move_ctor", !.o = dst, !.src = src])
    /\ UNCHANGED <<osVars, bundleVars, threadVars, gone>>
    /\ UNCHANGED mk

\* _child_handle= std::move(lhs._child_handle); comes before
\* _resource = std::move(lhs._resource);  the destination's handle goes first.
move_assign_first == "handle"

\* child& operator=(child && lhs): the unique_ptr assignment gives up the
\* bundle the destination owned.
move_assign(t, dst, src) ==
    /\ Idle(t)
    /\ life[dst] = "live"
    /\ life[src] = "live"
    /\ dst # src
    /\ Quiescent(dst)
    /\ Quiescent(src)
    /\ handle' = [handle EXCEPT ![dst] = handle[src],
                                ![src] = moved_from_handle(handle[src])]
    /\ resource' = [resource EXCEPT ![dst] = resource[src],
                                    ![src] = moved_from_resource(resource[src])]
    /\ released' = Release(resource[dst])
    /\ exited' = [exited EXCEPT ![dst] = exited[src]]
    /\ exit_code' = [exit_code EXCEPT
                        ![dst] = move_assign_exit_code(exit_code[dst], exit_code[src])]
    /\ attached' = [attached EXCEPT ![dst] = attached[src]]
    /\ waited' = [waited EXCEPT ![dst] = waited[src], ![src] = FALSE]
    /\ timedout' = [timedout EXCEPT ![dst] = timedout[src], ![src] = FALSE]
    /\ Entered(t, src)
    /\ Returns(t, [NoRet EXCEPT !.op = "move_assign", !.o = dst, !.src = src,
                                !.h = handle[dst], !.rel = resource[dst],
                                !.first = move_assign_first])
    /\ UNCHANGED <<life, osVars, built, threadVars, gone>>
    /\ UNCHANGED mk

\* ---------------------------------------------------------- make_resource
\* A descriptor names its resource and says whether it yields it.
Kinds == 1..NKinds
Descriptors == [id : Kinds, has : BOOLEAN]

\* Tuples of at most MaxDescs descriptors.
DescriptorTuples ==
    UNION {[1..n -> Descriptors] : n \in 0..MaxDescs}

\* initializer_resource(v): the resource of the descriptor, or boost::none.
initializer_resource(v) == IF v.has THEN v.id ELSE None

\* decltype_(v) == decltype_(boost::none)
is_none(v) == v = None

\* boost::hana::transform(tup, [](const auto & v) {return initializer_resource(v);})
hana_transform(xs) == [i \in 1..Len(xs) |-> initializer_resource(xs[i])]

\* boost::hana::filter(res, pred) keeps the elements that satisfy pred, here
\* the comparison with the type of boost::none.
hana_filter(xs) == SelectSeq(xs, is_none)

\* make_resource is called with one of the tuples.
InitMake ==
    /\ InitChild
    /\ mk \in {[NoMake EXCEPT !.stage = "called", !.tup = s] :
                  s \in DescriptorTuples}

MakeStep == UNCHANGED <<ownerVars, osVars, bundleVars, threadVars, histVars>>

\* auto res = boost::hana::transform(tup, ...initializer_resource(v)...);
make_resource_transform ==
    /\ mk.stage = "called"
    /\ mk' = [mk EXCEPT !.stage = "transformed",
                         !.res = hana_transform(mk.tup)]
    /\ MakeStep

\* auto filtered = boost::hana::filter(res, ...);
make_resource_filter ==
    /\ mk.stage = "transformed"
    /\ mk' = [mk EXCEPT !.stage = "filtered",
                         !.filtered = hana_filter(mk.res)]
    /\ MakeStep

\* return boost::hana::unpack(filtered, maker);
make_resource_unpack ==
    /\ mk.stage = "filtered"
    /\ mk' = [mk EXCEPT !.stage = "returned", !.made = mk.filtered]
    /\ MakeStep

\* ------------------------------------------------------------- destructor
\* The destructor waits for every child that has not exited.
dtor_waits_unattached(ex, att) == ~ex
\* if (!_exited.load() && _attached)
dtor_waits(ex, att) == ~ex /\ att

\* _child_handle is declared before _resource, and members are destroyed in
\* the reverse order of their declaration: the bundle goes first.
dtor_first == "resource"

\* ~child(): wait() when the guard asks for it (it then blocks until the
\* process has ended), then the members go: _resource, then _child_handle.
dtor(t, o) ==
    /\ Idle(t)
    /\ life[o] = "live"
    /\ Quiescent(o)
    /\ (dtor_waits(exited[o], attached[o]) /\ valid_handle(handle[o]))
          => pstate[handle[o]] = "exited"
    /\ released' = Release(resource[o])
    /\ life' = [life EXCEPT ![o] = "dead"]
    /\ handle' = [handle EXCEPT ![o] = NoHandle]
    /\ resource' = [resource EXCEPT ![o] = NoResource]
    /\ exited' = [exited EXCEPT ![o] = FALSE]
    /\ exit_code' = [exit_code EXCEPT ![o] = Sentinel]
    /\ attached' = [attached EXCEPT ![o] = FALSE]
    /\ waited' = [waited EXCEPT ![o] = FALSE]
    /\ timedout' = [timedout EXCEPT ![o] = FALSE]
    /\ Entered(t, o)
    /\ Returns(t, [NoRet EXCEPT !.op = "dtor", !.o = o,
                                !.os = dtor_waits(exited[o], attached[o]),
                                !.h = handle[o], !.rel = resource[o],
                                !.first = dtor_first])
    /\ UNCHANGED <<osVars, built, threadVars, gone>>
    /\ UNCHANGED mk

\* ----------------------------------------------------- the platform layer
\* What a primitive given an empty handle does is the platform's business:
\* it reports the failure (the member unwinds) or it comes back regardless.
EmptyHandleOutcomes == {"error", "returns"}

\* The process ends on its own, or because it was asked to, with code c.
ProcExit(p, c) ==
    /\ pstate[p] \in {"running", "terminating"}
    /\ pstate' = [pstate EXCEPT ![p] = "exited"]
    /\ pcode' = [pcode EXCEPT ![p] = c]
    /\ UNCHANGED <<ownerVars, bundleVars, threadVars, histVars>>
    /\ UNCHANGED mk

\* api::is_running(handle)
api_is_running(h) == pstate[h] \in {"running", "terminating"}

\* The thread leaves the member it is in.
Leave(t) ==
    /\ op' = [op EXCEPT ![t] = "none"]
    /\ pc' = [pc EXCEPT ![t] = "idle"]
    /\ cur' = [cur EXCEPT ![t] = 0]
    /\ ec' = [ec EXCEPT ![t] = LocalInit]
    /\ lb' = [lb EXCEPT ![t] = FALSE]

\* The thread goes on to the next statement of the member it is in.
Goto(t, where) == pc' = [pc EXCEPT ![t] = where]

\* -------------------------------------------------------------- observers
\* int exit_code() const {return _exit_code.load();}
get_exit_code(t, o) ==
    /\ Idle(t)
    /\ life[o] = "live"
    /\ Entered(t, o)
    /\ Returns(t, [NoRet EXCEPT !.op = "exit_code", !.o = o, !.n = exit_code[o]])
    /\ UNCHANGED <<ownerVars, osVars, bundleVars, threadVars, waited, timedout, gone>>
    /\ UNCHANGED mk

\* bool valid() const
valid(t, o) ==
    /\ Idle(t)
    /\ life[o] = "live"
    /\ Entered(t, o)
    /\ Returns(t, [NoRet EXCEPT !.op = "valid", !.o = o,
                                !.b = valid_handle(handle[o])])
    /\ UNCHANGED <<ownerVars, osVars, bundleVars, threadVars, waited, timedout, gone>>
    /\ UNCHANGED mk

\* bool running()
running(t, o) ==
    /\ Idle(t)
    /\ life[o] = "live"
    /\ Entered(t, o)
    /\ Returns(t, [NoRet EXCEPT
            !.op = "running", !.o = o,
            !.os = valid_handle(handle[o]),
            !.h = handle[o],
            !.b = IF valid_handle(handle[o])
                  THEN api_is_running(handle[o]) ELSE FALSE])
    /\ UNCHANGED <<ownerVars, osVars, bundleVars, threadVars, waited, timedout, gone>>
    /\ UNCHANGED mk

\* terminate() marks the child as exited.
terminate_exited_set(ex) == TRUE
\* terminate() has no store to _exited.
terminate_exited(ex) == ex

\* void terminate(): api::terminate(_child_handle), whatever the handle is.
terminate(t, o) ==
    /\ Idle(t)
    /\ life[o] = "live"
    /\ Entered(t, o)
    /\ IF valid_handle(handle[o])
       THEN /\ pstate' = [pstate EXCEPT ![handle[o]] =
                    IF @ = "running" THEN "terminating" ELSE @]
            /\ Returns(t, [NoRet EXCEPT !.op = "terminate", !.o = o,
                                        !.os = TRUE, !.h = handle[o]])
       ELSE /\ pstate' = pstate
            /\ \E out \in EmptyHandleOutcomes :
                 Returns(t, [NoRet EXCEPT !.op = "terminate", !.o = o,
                                          !.os = TRUE, !.h = handle[o],
                                          !.thrown = (out = "error")])
    /\ exited' = [exited EXCEPT ![o] = terminate_exited(@)]
    /\ UNCHANGED <<life, handle, resource, exit_code, attached, pcode,
                   bundleVars, threadVars, waited, timedout, gone>>
    /\ UNCHANGED mk

\* ------------------------------------------------------------------ wait()
\* The guard is gone: wait() calls the primitive every time.
wait_guard_always(ex) == TRUE
\* if (!_exited.load())
wait_guard(ex) == ~ex

\* The local is dropped: _exit_code keeps the value it had.
wait_store_exit_code_kept(old, local) == old
\* _exit_code.store(exit_code);
wait_store_exit_code(old, local) == local

\* The call of wait() up to its load of _exited.
wait_load(t, o) ==
    /\ Idle(t)
    /\ life[o] = "live"
    /\ EnteredAfter(t, o)
    /\ gone' = [gone EXCEPT ![t] = FALSE]
    /\ IF wait_guard(exited[o])
       THEN /\ op' = [op EXCEPT ![t] = "wait"]
            /\ pc' = [pc EXCEPT ![t] = "api"]
            /\ cur' = [cur EXCEPT ![t] = o]
            /\ ec' = [ec EXCEPT ![t] = LocalInit]
            /\ Returns(t, NoRet)
            /\ UNCHANGED <<lb, waited, timedout>>
       ELSE /\ Returns(t, [NoRet EXCEPT !.op = "wait", !.o = o])
            /\ waited' = [waited EXCEPT ![o] = TRUE]
            /\ timedout' = [timedout EXCEPT ![o] = FALSE]
            /\ UNCHANGED threadVars
    /\ UNCHANGED <<ownerVars, osVars, bundleVars>>
    /\ UNCHANGED mk

\* boost::process::detail::api::wait(_child_handle, exit_code): comes back
\* once the process has ended, with its exit code in the local.
wait_api(t) ==
    /\ op[t] = "wait"
    /\ pc[t] = "api"
    /\ \/ /\ valid_handle(handle[cur[t]])
          /\ pstate[handle[cur[t]]] = "exited"
          /\ ec' = [ec EXCEPT ![t] = pcode[handle[cur[t]]]]
          /\ gone' = [gone EXCEPT ![t] = TRUE]
          /\ Goto(t, "store_exited")
          /\ UNCHANGED <<op, cur, lb, ret>>
       \/ /\ ~valid_handle(handle[cur[t]])
          /\ Goto(t, "store_exited")
          /\ UNCHANGED <<op, cur, ec, lb, gone, ret>>
       \/ /\ ~valid_handle(handle[cur[t]])
          /\ Leave(t)
          /\ Returns(t, [NoRet EXCEPT !.op = "wait", !.o = cur[t],
                                      !.os = TRUE, !.thrown = TRUE])
          /\ UNCHANGED gone
    /\ UNCHANGED <<ownerVars, osVars, bundleVars, waited, timedout, pre>>
    /\ UNCHANGED mk

\* wait() leaves the flag down.
wait_exited_store_false == FALSE
\* _exited.store(true);
wait_exited_store == TRUE

\* _exited.store(true);
wait_store_exited(t) ==
    /\ op[t] = "wait"
    /\ pc[t] = "store_exited"
    /\ exited' = [exited EXCEPT ![cur[t]] = wait_exited_store]
    /\ Goto(t, "store_code")
    /\ UNCHANGED <<life, handle, resource, exit_code, attached, osVars,
                   bundleVars, op, cur, ec, lb, histVars>>
    /\ UNCHANGED mk

\* _exit_code.store(exit_code); and the return.
wait_store_code(t) ==
    /\ op[t] = "wait"
    /\ pc[t] = "store_code"
    /\ exit_code' = [exit_code EXCEPT
            ![cur[t]] = wait_store_exit_code(exit_code[cur[t]], ec[t])]
    /\ Leave(t)
    /\ Returns(t, [NoRet EXCEPT !.op = "wait", !.o = cur[t], !.os = TRUE,
                                !.h = handle[cur[t]]])
    /\ waited' = [waited EXCEPT ![cur[t]] = TRUE]
    /\ timedout' = [timedout EXCEPT ![cur[t]] = FALSE]
    /\ UNCHANGED <<life, handle, resource, exited, attached, osVars,
                   bundleVars, gone, pre>>
    /\ UNCHANGED mk

\* ------------------------------------------------ wait_for() / wait_until()
BoundedWaits == {"wait_for", "wait_until"}

\* _exited is set whatever the primitive said.
bounded_exited_store_true(b) == TRUE
\* _exited.store(!b);
bounded_exited_store_negated(b) == ~b
\* _exited.store(b);
bounded_exited_store(b) == b

\* The call of a bounded wait up to its load of _exited.
bounded_load(t, o, w) ==
    /\ Idle(t)
    /\ life[o] = "live"
    /\ Entered(t, o)
    /\ gone' = [gone EXCEPT ![t] = FALSE]
    /\ IF ~exited[o]
       THEN /\ op' = [op EXCEPT ![t] = w]
            /\ pc' = [pc EXCEPT ![t] = "api"]
            /\ cur' = [cur EXCEPT ![t] = o]
            /\ ec' = [ec EXCEPT ![t] = LocalInit]
            /\ Returns(t, NoRet)
            /\ UNCHANGED <<lb, timedout>>
       ELSE /\ Returns(t, [NoRet EXCEPT !.op = w, !.o = o, !.b = TRUE])
            /\ timedout' = [timedout EXCEPT ![o] = FALSE]
            /\ UNCHANGED threadVars
    /\ UNCHANGED <<ownerVars, osVars, bundleVars, waited>>
    /\ UNCHANGED mk

\* auto b = api::wait_for(_child_handle, _exit_code, rel_time): the
\* primitive is handed the member _exit_code, not the local.  It comes back
\* true with the exit code in its out parameter when the process has ended
\* within the bound, and false, the out parameter untouched, when not.
bounded_api(t, w) ==
    /\ op[t] = w
    /\ pc[t] = "api"
    /\ \/ /\ valid_handle(handle[cur[t]])
          /\ pstate[handle[cur[t]]] = "exited"
          /\ lb' = [lb EXCEPT ![t] = TRUE]
          /\ exit_code' = [exit_code EXCEPT ![cur[t]] = pcode[handle[cur[t]]]]
          /\ gone' = [gone EXCEPT ![t] = TRUE]
          /\ Goto(t, "store_exited")
          /\ UNCHANGED <<op, cur, ec, ret>>
       \/ /\ valid_handle(handle[cur[t]])
          /\ pstate[handle[cur[t]]] # "exited"
          /\ lb' = [lb EXCEPT ![t] = FALSE]
          /\ Goto(t, "store_exited")
          /\ UNCHANGED <<op, cur, ec, ret, exit_code, gone>>
       \/ /\ ~valid_handle(handle[cur[t]])
          /\ \E b \in BOOLEAN : lb' = [lb EXCEPT ![t] = b]
          /\ Goto(t, "store_exited")
          /\ UNCHANGED <<op, cur, ec, ret, exit_code, gone>>
       \/ /\ ~valid_handle(handle[cur[t]])
          /\ Leave(t)
          /\ Returns(t, [NoRet EXCEPT !.op = w, !.o = cur[t],
                                      !.os = TRUE, !.thrown = TRUE])
          /\ UNCHANGED <<exit_code, gone>>
    /\ UNCHANGED <<life, handle, resource, exited, attached, osVars,
                   bundleVars, waited, timedout, pre>>
    /\ UNCHANGED mk

\* _exited.store(b); if (!b) return false;
bounded_store_exited(t, w) ==
    /\ op[t] = w
    /\ pc[t] = "store_exited"
    /\ exited' = [exited EXCEPT ![cur[t]] = bounded_exited_store(lb[t])]
    /\ IF ~lb[t]
       THEN /\ Leave(t)
            /\ Returns(t, [NoRet EXCEPT !.op = w, !.o = cur[t], !.b = FALSE,
                                        !.os = TRUE, !.h = handle[cur[t]]])
            /\ timedout' = [timedout EXCEPT ![cur[t]] = TRUE]
       ELSE /\ Goto(t, "store_code")
            /\ UNCHANGED <<op, cur, ec, lb, ret, timedout>>
    /\ UNCHANGED <<life, handle, resource, exit_code, attached, osVars,
                   bundleVars, waited, gone, pre>>
    /\ UNCHANGED mk

\* _exit_code.store(exit_code); return true;  exit_code is the local, which
\* nothing has written since its initialisation.
bounded_store_code(t, w) ==
    /\ op[t] = w
    /\ pc[t] = "store_code"
    /\ exit_code' = [exit_code EXCEPT ![cur[t]] = ec[t]]
    /\ Leave(t)
    /\ Returns(t, [NoRet EXCEPT !.op = w, !.o = cur[t], !.b = TRUE,
                                !.os = TRUE, !.h = handle[cur[t]]])
    /\ timedout' = [timedout EXCEPT ![cur[t]] = FALSE]
    /\ UNCHANGED <<life, handle, resource, exited, attached, osVars,
                   bundleVars, waited, gone, pre>>
    /\ UNCHANGED mk

\* bool wait_for(const std::chrono::duration<Rep, Period>& rel_time)
wait_for_load(t, o) == bounded_load(t, o, "wait_for")
wait_for_api(t) == bounded_api(t, "wait_for")
wait_for_store_exited(t) == bounded_store_exited(t, "wait_for")
wait_for_store_code(t) == bounded_store_code(t, "wait_for")

\* bool wait_until(const std::chrono::time_point<Clock, Duration>& timeout_time)
wait_until_load(t, o) == bounded_load(t, o, "wait_until")
wait_until_api(t) == bounded_api(t, "wait_until")
wait_until_store_exited(t) == bounded_store_exited(t, "wait_until")
wait_until_store_code(t) == bounded_store_code(t, "wait_until")

\* ---------------------------------------------------------- specifications
\* The constructors.
Construct(t) ==
    \/ \E o \in Owners : \E p \in Procs : \E r \in {NoResource, p} :
            child_launch(t, o, p, r)
    \/ \E o \in Owners : child_default(t, o)

\* Moves and destruction.
Transfer(t) ==
    \/ \E dst, src \in Owners : move_ctor(t, dst, src)
    \/ \E dst, src \in Owners : move_assign(t, dst, src)
    \/ \E o \in Owners : dtor(t, o)

\* The members that neither block nor store.
Observe(t) ==
    \/ \E o \in Owners : get_exit_code(t, o)
    \/ \E o \in Owners : valid(t, o)
    \/ \E o \in Owners : running(t, o)

\* wait()
Wait(t) ==
    \/ \E o \in Owners : wait_load(t, o)
    \/ wait_api(t)
    \/ wait_store_exited(t)
    \/ wait_store_code(t)

\* wait_for() and wait_until()
Bounded(t) ==
    \/ \E o \in Owners : wait_for_load(t, o)
    \/ wait_for_api(t)
    \/ wait_for_store_exited(t)
    \/ wait_for_store_code(t)
    \/ \E o \in Owners : wait_until_load(t, o)
    \/ wait_until_api(t)
    \/ wait_until_store_exited(t)
    \/ wait_until_store_code(t)

Env == \E p \in Procs : \E c \in ExitCodes : ProcExit(p, c)

\* Single-threaded use: one thread performs every member.
Next ==
    \/ \E t \in MainThread :
          \/ Construct(t)
          \/ Transfer(t)
          \/ Observe(t)
          \/ \E o \in Owners : terminate(t, o)
          \/ Wait(t)
          \/ Bounded(t)
    \/ Env

Spec == Init /\ [][Next]_vars

\* Single-threaded use of children that stay where they were constructed:
\* terminate() and the three waits.
NextWait ==
    \/ \E t \in MainThread :
          \/ Construct(t)
          \/ \E o \in Owners : terminate(t, o)
          \/ Wait(t)
          \/ Bounded(t)
    \/ Env

SpecWait == Init /\ [][NextWait]_vars

\* Single-threaded use of children that are constructed, waited on, moved
\* and destroyed.
NextLife ==
    \/ \E t \in MainThread :
          \/ Construct(t)
          \/ Transfer(t)
          \/ Wait(t)
    \/ Env

SpecLife == Init /\ [][NextLife]_vars

\* Several threads call wait() and exit_code() on the same children.
NextWaitMT ==
    \/ \E t \in Threads :
          \/ Construct(t)
          \/ Wait(t)
          \/ \E o \in Owners : get_exit_code(t, o)
    \/ Env

SpecWaitMT == Init /\ [][NextWaitMT]_vars

\* Several threads call running(), terminate(), exit_code() and the three
\* waits on the same launched children; no child is moved or destroyed.
NextMT ==
    \/ \E t \in Threads :
          \/ \E o \in Owners : \E p \in Procs : \E r \in {NoResource, p} :
                child_launch(t, o, p, r)
          \/ Observe(t)
          \/ \E o \in Owners : terminate(t, o)
          \/ Wait(t)
          \/ Bounded(t)
    \/ Env

SpecMT == Init /\ [][NextMT]_vars

\* The OS ends a process that was asked to terminate.
OsEnds(p) == pstate[p] = "terminating" /\ \E c \in ExitCodes : ProcExit(p, c)

\* One thread launches children and calls terminate() on them; every
\* thread calls wait() on them.
NextLive ==
    \/ \E t \in MainThread :
          \/ \E o \in Owners : \E p \in Procs : child_launch(t, o, p, p)
          \/ \E o \in Owners : terminate(t, o)
    \/ \E t \in Threads : Wait(t)
    \/ Env

\* A thread inside wait() goes on when it can (api::wait comes back once the
\* process has ended), and the OS ends every process asked to terminate.
Fairness ==
    /\ \A t \in Threads :
          /\ WF_vars(wait_api(t))
          /\ WF_vars(wait_store_exited(t))
          /\ WF_vars(wait_store_code(t))
    /\ \A p \in Procs : WF_vars(OsEnds(p))

SpecLive == Init /\ [][NextLive]_vars /\ Fairness

\* Single-threaded use of children that are constructed (every launched one
\* with a bundle), terminated, waited on, moved and destroyed.
NextAttached ==
    \/ \E t \in MainThread :
          \/ \E o \in Owners : \E p \in Procs : child_launch(t, o, p, p)
          \/ \E o \in Owners : child_default(t, o)
          \/ Transfer(t)
          \/ \E o \in Owners : terminate(t, o)
          \/ Wait(t)
    \/ Env

SpecAttached == Init /\ [][NextAttached]_vars

\* One call of make_resource, statement by statement.
NextMake ==
    \/ make_resource_transform
    \/ make_resource_filter
    \/ make_resource_unpack

SpecMake == InitMake /\ [][NextMake]_vars

\* Single-threaded use of children that are constructed, looked at and
\* destroyed: nothing here moves a child or waits on it.
NextObserve ==
    \/ \E t \in MainThread :
          \/ Construct(t)
          \/ Observe(t)
          \/ \E o \in Owners : dtor(t, o)
    \/ Env

SpecObserve == Init /\ [][NextObserve]_vars

TypeOK ==
    /\ life \in [Owners -> {"unborn", "live", "dead"}]
    /\ handle \in [Owners -> {NoHandle} \cup Procs]
    /\ resource \in [Owners -> {NoResource} \cup Procs]
    /\ exited \in [Owners -> BOOLEAN]
    /\ exit_code \in [Owners -> {Sentinel} \cup ExitCodes]
    /\ attached \in [Owners -> BOOLEAN]
    /\ pstate \in [Procs -> {"none", "running", "terminating", "exited"}]
    /\ pcode \in [Procs -> ExitCodes]
    /\ pc \in [Threads -> {"idle", "api", "store_exited", "store_code"}]
    /\ op \in [Threads -> {"none", "wait"} \cup BoundedWaits]
    /\ cur \in [Threads -> {0} \cup Owners]
    /\ mk.stage \in {"none", "called", "transformed", "filtered", "returned"}
    /\ Len(mk.res) \in {0, Len(mk.tup)}
    /\ Len(mk.made) <= Len(mk.tup)

\* ------------------------------------------------------------- properties
Moves == {"move_ctor", "move_assign"}

\* C1: for every exit code c, when wait() returns on a valid owner that was
\* not yet exited and whose process ended with code c, the owner is Exited
\* and exit_code() is c.
C1_WaitYieldsExitCode ==
    \A t \in Threads :
        (/\ ret[t].op = "wait"
         /\ ~ret[t].thrown
         /\ valid_handle(pre[t].handle)
         /\ ~pre[t].exited)
        => /\ exited[ret[t].o]
           /\ exit_code[ret[t].o] = pcode[pre[t].handle]

\* C1 witness: a wait() that went to the OS has returned on a valid owner
\* whose process ended with a code other than 0.
C1_Witness ==
    \E t \in Threads :
        /\ ret[t].op = "wait"
        /\ ret[t].os
        /\ valid_handle(pre[t].handle)
        /\ ~pre[t].exited
        /\ pcode[pre[t].handle] = 1
        /\ exit_code[ret[t].o] = 1

\* C2: for every exit code c, when wait_for() or wait_until() returns true on
\* a valid owner whose process ended with code c within the bound, the owner
\* is Exited and exit_code() is c.
C2_BoundedYieldsExitCode ==
    \A t \in Threads :
        (/\ ret[t].op \in BoundedWaits
         /\ ret[t].b
         /\ gone[t]
         /\ valid_handle(pre[t].handle))
        => /\ exited[ret[t].o]
           /\ exit_code[ret[t].o] = pcode[pre[t].handle]

\* C3: the destructor of an owner that holds a valid native handle from a
\* launch and has not exited invokes wait() before the handle and the
\* bundle are given up.
C3_DtorReaps ==
    \A t \in Threads :
        (/\ ret[t].op = "dtor"
         /\ valid_handle(pre[t].handle)
         /\ ~pre[t].exited)
        => ret[t].os

\* C4: once a wait() has returned on a valid owner, a later wait() on it
\* never reaches the OS wait primitive and leaves the exited flag and
\* exit_code() as they were.
C4_WaitIdempotent ==
    \A t \in Threads :
        /\ (op[t] = "wait" /\ valid_handle(pre[t].handle)) => ~pre[t].waited
        /\ (/\ ret[t].op = "wait"
            /\ pre[t].waited
            /\ valid_handle(pre[t].handle))
           => /\ ~ret[t].os
              /\ exited[ret[t].o] = pre[t].exited
              /\ exit_code[ret[t].o] = pre[t].exit_code

\* C4 witness: a second wait() has returned on a valid owner that holds the
\* exit code of its process.
C4_Witness ==
    \E t \in Threads :
        /\ ret[t].op = "wait"
        /\ pre[t].waited
        /\ valid_handle(pre[t].handle)
        /\ exit_code[ret[t].o] = 1

\* C5: when wait_for() or wait_until() returns false on an owner that was
\* not exited, the call has changed nothing: the exited flag is false,
\* exit_code() is what it was, and the handle, the bundle and the attached
\* flag are untouched.
C5_TimeoutLeavesState ==
    \A t \in Threads :
        (/\ ret[t].op \in BoundedWaits
         /\ ~ret[t].b
         /\ ~ret[t].thrown
         /\ ~pre[t].exited)
        => /\ ~exited[ret[t].o]
           /\ exit_code[ret[t].o] = pre[t].exit_code
           /\ handle[ret[t].o] = pre[t].handle
           /\ resource[ret[t].o] = pre[t].resource
           /\ attached[ret[t].o] = pre[t].attached

\* C5 witness: a bounded wait on a valid owner has asked the OS and returned
\* false.
C5_Witness ==
    \E t \in Threads :
        /\ ret[t].op \in BoundedWaits
        /\ ~ret[t].b
        /\ ret[t].os
        /\ ~ret[t].thrown
        /\ valid_handle(pre[t].handle)
        /\ pstate[pre[t].handle] = "running"

\* C6: a bounded wait that follows timed-out bounded waits on the same valid
\* owner asks the OS again and, when the process had ended by then, returns
\* true and leaves the owner Exited.
C6_RecheckAfterTimeout ==
    \A t \in Threads :
        /\ (/\ op[t] = "none"
            /\ ret[t].op \in BoundedWaits
            /\ pre[t].timedout
            /\ valid_handle(pre[t].handle))
           => /\ ret[t].os
              /\ gone[t] => (ret[t].b /\ exited[ret[t].o])

\* C6 witness: a bounded wait that began after a timeout has returned true
\* and left the owner Exited.
C6_Witness ==
    \E t \in Threads :
        /\ ret[t].op \in BoundedWaits
        /\ pre[t].timedout
        /\ valid_handle(pre[t].handle)
        /\ gone[t]
        /\ ret[t].b
        /\ exited[ret[t].o]

\* C7: after a move construction or move assignment b = move(a), a is not
\* valid and holds no bundle, b has a's former handle, bundle, exited flag,
\* exit code and attached flag; destroying an owner with an empty handle
\* calls no OS primitive and releases nothing, and no bundle held by a live
\* owner has been released.
C7_MoveTransfersOnce ==
    /\ \A t \in Threads :
          ret[t].op \in Moves
          => /\ ~valid_handle(handle[ret[t].src])
             /\ resource[ret[t].src] = NoResource
             /\ handle[ret[t].o] = pre[t].handle
             /\ resource[ret[t].o] = pre[t].resource
             /\ exited[ret[t].o] = pre[t].exited
             /\ exit_code[ret[t].o] = pre[t].exit_code
             /\ attached[ret[t].o] = pre[t].attached
    /\ \A t \in Threads :
          (ret[t].op = "dtor" /\ ~valid_handle(pre[t].handle))
          => (~ret[t].os /\ ret[t].rel = NoResource)
    /\ \A o \in Owners :
          (life[o] = "live" /\ resource[o] # NoResource)
          => released[resource[o]] = 0

\* C7 witness: a move assignment has just taken a valid handle, a bundle and
\* an exited state with a code other than 0 from its source.
C7_Witness ==
    \E t \in Threads :
        /\ ret[t].op = "move_assign"
        /\ valid_handle(pre[t].handle)
        /\ pre[t].resource # NoResource
        /\ pre[t].exited
        /\ pre[t].exit_code = 1
        /\ handle[ret[t].o] = pre[t].handle

\* A live owner holds bundle r.
Held(r) == \E o \in Owners : life[o] = "live" /\ resource[o] = r

\* C8: every bundle is released exactly once: never twice, never while a
\* live owner holds it, and it has been released once no owner holds it any
\* more; a move assignment calls no OS primitive on the process its
\* destination had.
C8_BundleReleasedOnce ==
    /\ \A r \in Procs :
          /\ released[r] <= 1
          /\ Held(r) => released[r] = 0
          /\ (built[r] /\ ~Held(r)) => released[r] = 1
    /\ \A t \in Threads : ret[t].op = "move_assign" => ~ret[t].os

\* C8 witness: a move assignment has overwritten an owner that held a
\* bundle, and that bundle has been released once.
C8_Witness ==
    \E t \in Threads :
        /\ ret[t].op = "move_assign"
        /\ ret[t].rel # NoResource
        /\ released[ret[t].rel] = 1

\* C9: whatever the interleaving of threads that call wait() on the same
\* valid owner, a thread whose wait() has returned reads the exit code of
\* the process from exit_code(), never the sentinel.
C9_ConcurrentWaitConverges ==
    \A t \in Threads :
        (/\ ret[t].op = "wait"
         /\ ~ret[t].thrown
         /\ valid_handle(pre[t].handle))
        => exit_code[ret[t].o] = pcode[pre[t].handle]

\* C10: on an owner with an empty handle, running(), terminate(), wait(),
\* wait_for() and wait_until() pass nothing to an OS primitive, do not set
\* the exited flag and leave exit_code() as it was; running() returns false.
C10_EmptyHandleNoOp ==
    \A t \in Threads :
        (/\ ret[t].op \in {"running", "terminate", "wait"} \cup BoundedWaits
         /\ ~valid_handle(pre[t].handle))
        => /\ ~ret[t].os
           /\ exited[ret[t].o] = pre[t].exited
           /\ exit_code[ret[t].o] = pre[t].exit_code
           /\ ret[t].op = "running" => ~ret[t].b

\* C11: a default-constructed owner that has only been observed reports
\* valid() = false, running() = false without a call to the OS, and
\* exit_code() = -1, and its destructor completes without calling wait().
C11_DefaultOwnerInert ==
    \A t \in Threads :
        (ret[t].op \in {"valid", "running", "exit_code", "dtor"}
         /\ ~valid_handle(pre[t].handle))
        => /\ ret[t].op = "valid" => ~ret[t].b
           /\ ret[t].op = "running" => (~ret[t].b /\ ~ret[t].os)
           /\ ret[t].op = "exit_code" => ret[t].n = Sentinel
           /\ ret[t].op = "dtor" => ~ret[t].os
           /\ ~pre[t].exited /\ pre[t].exit_code = Sentinel
           /\ ~pre[t].attached

\* C11 witness: a default-constructed owner has been destroyed while another
\* default-constructed owner is alive, and the destructor made no wait().
C11_Witness ==
    \E t \in Threads : \E o \in Owners :
        /\ ret[t].op = "dtor"
        /\ ~valid_handle(pre[t].handle)
        /\ ~ret[t].os
        /\ o # ret[t].o
        /\ life[o] = "live"
        /\ ~valid_handle(handle[o])

\* C12: Exited is terminal.  Once the exited flag of a valid owner is true,
\* no step of running(), terminate(), exit_code(), wait(), wait_for() or
\* wait_until(), by whatever thread, makes it false again, a bounded wait
\* that times out while another thread's wait() completes included.
C12_ExitedIsTerminal ==
    [][\A o \in Owners :
          (/\ life[o] = "live"
           /\ life'[o] = "live"
           /\ valid_handle(handle[o])
           /\ exited[o]) => exited'[o]]_vars

\* C13: in every reachable state, the states between the atomic stores of a
\* member included, the stored exit code of a valid owner differs from -1
\* only if the owner's exited flag is true.
C13_CodeOnlyWhenExited ==
    \A o \in Owners :
        (life[o] = "live" /\ valid_handle(handle[o]) /\ exit_code[o] # Sentinel)
        => exited[o]

\* C14: after any sequence of constructions, move constructions, move
\* assignments and destructions, no valid handle and no bundle is held by two
\* live owners, and the source of a move holds neither a handle nor a bundle.
C14_ExclusiveOwnership ==
    /\ \A o1, o2 \in Owners :
          (o1 # o2 /\ life[o1] = "live" /\ life[o2] = "live")
          => /\ valid_handle(handle[o1]) => handle[o1] # handle[o2]
             /\ resource[o1] # NoResource => resource[o1] # resource[o2]
    /\ \A t \in Threads :
          (ret[t].op \in Moves /\ life[ret[t].src] = "live")
          => /\ ~valid_handle(handle[ret[t].src])
             /\ resource[ret[t].src] = NoResource

\* C14 witness: a move has just handed a valid handle and a bundle to its
\* destination, and the source is still alive.
C14_Witness ==
    \E t \in Threads :
        /\ ret[t].op \in Moves
        /\ life[ret[t].src] = "live"
        /\ life[ret[t].o] = "live"
        /\ valid_handle(handle[ret[t].o])
        /\ resource[ret[t].o] # NoResource
        /\ handle[ret[t].o] = pre[t].handle

\* The concrete resources of a tuple of descriptors, in their order.
ConcreteResources(tup) ==
    LET F[i \in 0..Len(tup)] ==
            IF i = 0 THEN <<>>
            ELSE IF tup[i].has THEN Append(F[i - 1], tup[i].id) ELSE F[i - 1]
    IN  F[Len(tup)]

\* C15: for every tuple of descriptors, what make_resource returns holds
\* exactly the resources of the descriptors that yielded one, in their
\* original order; descriptors that yielded boost::none contribute nothing.
C15_BundleHoldsConcrete ==
    mk.stage = "returned" => mk.made = ConcreteResources(mk.tup)

\* C16: when an owner gives up a valid handle together with a bundle, in
\* its destructor or as the destination of a move assignment, the handle
\* goes first or together with the bundle: the bundle is never released
\* before the handle.
C16_BundleOutlivesHandle ==
    \A t \in Threads :
        (/\ ret[t].op \in {"dtor", "move_assign"}
         /\ valid_handle(ret[t].h)
         /\ ret[t].rel # NoResource)
        => ret[t].first = "handle"

\* C17: terminate() leaves the exited flag, the exit code, the handle, the
\* bundle and the attached flag of its owner as they were; a wait() called
\* next on an owner that was not exited is still not exited while it waits
\* for the OS, and on a valid owner it is that wait() which makes the owner
\* Exited with the exit code of the process.
C17_TerminateKeepsState ==
    \A t \in Threads :
        /\ ret[t].op = "terminate"
           => /\ exited[ret[t].o] = pre[t].exited
              /\ exit_code[ret[t].o] = pre[t].exit_code
              /\ handle[ret[t].o] = pre[t].handle
              /\ resource[ret[t].o] = pre[t].resource
              /\ attached[ret[t].o] = pre[t].attached
        /\ (/\ op[t] = "wait"
            /\ pc[t] = "api"
            /\ pre[t].after = "terminate")
           => ~exited[cur[t]]
        /\ (/\ ret[t].op = "wait"
            /\ ~ret[t].thrown
            /\ pre[t].after = "terminate"
            /\ valid_handle(pre[t].handle))
           => /\ exited[ret[t].o]
              /\ ~pre[t].exited => exit_code[ret[t].o] = pcode[pre[t].handle]

\* C17 witness: terminate() and then wait() have been called on a valid
\* owner that had not been waited on; the wait() went to the OS and stored
\* the code the terminated process ended with.
C17_Witness ==
    \E t \in Threads :
        /\ ret[t].op = "wait"
        /\ ret[t].os
        /\ pre[t].after = "terminate"
        /\ valid_handle(pre[t].handle)
        /\ ~pre[t].exited
        /\ pre[t].exit_code = Sentinel
        /\ exited[ret[t].o]
        /\ exit_code[ret[t].o] = 1

\* A thread is blocked in wait() on a valid owner whose process was asked
\* to terminate or has ended.
BlockedOnEnding(t) ==
    /\ op[t] = "wait"
    /\ pc[t] = "api"
    /\ valid_handle(handle[cur[t]])
    /\ pstate[handle[cur[t]]] \in {"terminating", "exited"}

\* wait() has returned to the thread and its owner is Exited.
ReturnedExited(t) == ret[t].op = "wait" /\ exited[ret[t].o]

\* C18: given that the OS ends every process asked to terminate, a thread
\* blocked in wait() on a valid owner whose process was asked to terminate
\* by another thread, or ended on its own, eventually returns with the owner
\* Exited; and no wait() that went to the OS returns on a valid owner while
\* the process is alive.
C18_WaitReturnsWhenProcessEnds ==
    /\ \A t \in Threads : BlockedOnEnding(t) ~> ReturnedExited(t)
    /\ [](\A t \in Threads :
            (ret[t].op = "wait" /\ ret[t].os /\ valid_handle(pre[t].handle))
            => pstate[pre[t].handle] = "exited")

\* C18 witness: a wait() that went to the OS has returned with the owner
\* Exited, and another thread's terminate() on the same owner, called when
\* the owner was not exited, is what ended the process.
C18_Witness ==
    \E t, u \in Threads :
        /\ t # u
        /\ ReturnedExited(t)
        /\ ret[t].os
        /\ valid_handle(pre[t].handle)
        /\ ret[u].op = "terminate"
        /\ ret[u].o = ret[t].o
        /\ ~pre[u].exited

\* What wait() leaves in (_exited, _exit_code) of an owner that had
\* (ex, code) there, when the process has ended with code c.
wait_outcome(ex, code, c) ==
    IF wait_guard(ex)
    THEN <<wait_exited_store, wait_store_exit_code(code, c)>>
    ELSE <<ex, code>>

\* C19: for every state of a valid owner and every exit code c of its ended
\* process, a wait_for() or wait_until() that returned true leaves the
\* exited flag and the exit code as wait() leaves them from the same state.
C19_BoundedWaitAsWait ==
    \A t \in Threads :
        (/\ ret[t].op \in BoundedWaits \cup {"wait"}
         /\ ret[t].op \in BoundedWaits => ret[t].b
         /\ ~ret[t].thrown
         /\ valid_handle(pre[t].handle))
        => <<exited[ret[t].o], exit_code[ret[t].o]>>
              = wait_outcome(pre[t].exited, pre[t].exit_code,
                             pcode[pre[t].handle])

\* C20: the attached flag of every owner is false in every reachable state,
\* and no destructor calls wait(), whatever constructions, moves, waits,
\* terminations and destructions came before.
C20_NeverAttached ==
    /\ \A o \in Owners : ~attached[o]
    /\ \A t \in Threads : ret[t].op = "dtor" => ~ret[t].os

\* C20 witness: an owner with a valid handle that was not exited, whose
\* process is still alive, has been destroyed without a wait().
C20_Witness ==
    \E t \in Threads :
        /\ ret[t].op = "dtor"
        /\ ~ret[t].os
        /\ valid_handle(pre[t].handle)
        /\ ~pre[t].exited
        /\ ~pre[t].attached
        /\ pstate[pre[t].handle] \in {"running", "terminating"}

====
